---- MODULE Spec2Model ----
\* Kubernetes platform of up: Platform.Init / Build / Deploy / URL running
\* against a cluster and an object store, one step per RPC (suspension point).
EXTENDS Integers, Sequences, FiniteSets, TLC

\* ---------------------------------------------------------------- bounds
\* Number of builds (build.New calls) one run of the model creates.
MaxBuilds == 2

BuildIds == 1..MaxBuilds

\* Addresses the cluster can allocate to a service of type ClusterIP.
ClusterIPs == {"10.0.0.1", "10.0.0.2"}

\* config.Kubernetes.Registry.URL and .Image of the project.
RegistryURL == "r.io"

RegistryImage == "hello"

\* Number of Platform.Deploy calls one run of the model makes.
MaxDeploys == 3

\* Pod phases the cluster reports for the builder pod.
Phases == {"Pending", "Running", "Succeeded", "Failed"}

VARIABLES
    \* ---- cluster and object store
    nsExists,      \* the stack namespace exists
    secret,        \* docker-registry secret: [present, auth]
    podExists,     \* [BuildIds -> BOOLEAN]: builder pod kaniko-<name>-<id> exists
    podPhase,      \* [BuildIds -> phase]: last phase of that pod ("none" before creation)
    workload,      \* the apps/v1 Deployment named project.name
    service,       \* the Service named project.name
    bucket,        \* the storage bucket exists
    objects,       \* keys of the tarball objects that were put
    \* ---- program
    password,      \* config.Kubernetes.Registry.Password
    pc,            \* position of the platform process
    pbuild,        \* Platform.build: 0 is nil, otherwise Build.ID
    idSeq,         \* number of ids xid.New() has produced
    lastPhase,     \* phase carried by the last build watch event of this Run
    runRes,        \* result of the last Build.Run: "none", "ok", "err"
    buildRes,      \* result of the last Platform.Build
    deployRes,     \* result of the last Deployment.Deploy
    pdeployRes,    \* result of the last Platform.Deploy
    urlRes,        \* result of the last Platform.URL: [called, err, ip]
    firstIP,       \* cluster_ip seen at the return of the first successful Deploy
    prevSvc,       \* Deploy's previousIP and resourceVersion: [ip, rv]
    deploys,       \* number of Platform.Deploy calls made
    events,        \* names emitted on the event sink by the handler in progress
    ops,           \* RPCs issued by the handler in progress, in order: [op, ok]
    project,       \* config.Name, a string as the sequence of its pieces
    stage,         \* the stage given to Platform.Init
    stackName,     \* KubernetesStack.Name, <<>> before Platform.Init
    wd,            \* injected files present in the working directory
    stackRes,      \* result of the last Stack.Create
    stackFirst,    \* namespace and secret at the first successful Stack.Create
    deployed,      \* workload and service pair at the first successful Deploy of a build
    ctxDone,       \* the context given to Build.Run is cancelled
    podSpec,       \* [BuildIds -> [ns, dest]]: namespace and --destination of the pod
    \* ---- Kubernetes.Override on its own
    target,        \* c.Kubernetes, the configuration Override writes
    override,      \* k, the override record
    overridden,    \* Override has run
    \* ---- Kubernetes.Default, Kubernetes.Validate and targz.Build on their own
    env,           \* the environment variables Default reads
    kube,          \* d, the configuration Default and Validate are called on
    kubeDoc,       \* the credential document at d.KubeConfig: loads, contexts
    tree,          \* the entries of the directory targz.Build walks
    upignore,      \* the lines of .upignore, or Missing
    fault,         \* the filesystem failure Build meets, or NoFault
    called,        \* the function that ran: "none", "Default", "Validate", "Build"
    ret            \* what it returned

vars == <<nsExists, secret, podExists, podPhase, workload, service, bucket, objects,
          password, pc, pbuild, idSeq, lastPhase, runRes, buildRes, deployRes,
          pdeployRes, urlRes, firstIP, prevSvc, deploys, events, ops,
          project, stage, stackName, wd, stackRes, stackFirst, deployed, ctxDone,
          podSpec, target, override, overridden, env, kube, kubeDoc, tree, upignore,
          fault, called, ret>>

overrideVars == <<target, override, overridden>>

funcVars == <<env, kube, kubeDoc, tree, upignore, fault, called, ret>>

clusterVars == <<nsExists, secret, podExists, podPhase, workload, service, bucket, objects>>

NoWorkload == [present |-> FALSE, buildId |-> 0, image |-> <<>>, replicas |-> 0,
               available |-> 0, updated |-> 0, updatedAvailable |-> 0, ns |-> <<>>]

NoService == [present |-> FALSE, clusterIP |-> "", resourceVersion |-> 0, ns |-> <<>>]

NoSecret == [present |-> FALSE, auth |-> "", ns |-> <<>>]

NoURL == [called |-> FALSE, err |-> FALSE, ip |-> ""]

Op(name, ok) == [op |-> name, ok |-> ok]

Log(name, ok) == ops' = Append(ops, Op(name, ok))

\* ---------------------------------------------------------------- Init
NoStack == [set |-> FALSE, ns |-> FALSE, secret |-> NoSecret]

NoStackRes == [namespace |-> "none", result |-> "none"]

NoDeployed == [build |-> 0, again |-> FALSE, pair |-> <<>>]

NoPod == [ns |-> <<>>, dest |-> <<>>]

\* An empty record of the Kubernetes configuration: every string "", Secure false.
EmptyKubernetes ==
    [KubeConfig |-> "", KubeContext |-> "", Endpoint |-> "", AccessKey |-> "",
     SecretKey |-> "", Secure |-> FALSE, Bucket |-> "", Location |-> "",
     URL |-> "", Image |-> "", Username |-> "", Email |-> "", Password |-> ""]

\* The pipeline before Platform.Init, for a project and a stage of the given sets.
PipelineInit(projects, stages) ==
    /\ nsExists \in BOOLEAN
    /\ secret = NoSecret
    /\ podExists = [b \in BuildIds |-> FALSE]
    /\ podPhase = [b \in BuildIds |-> "none"]
    /\ podSpec = [b \in BuildIds |-> NoPod]
    /\ workload = NoWorkload
    /\ service = NoService
    /\ bucket \in BOOLEAN
    /\ objects = {}
    /\ password \in {"", "secret"}
    /\ project \in projects
    /\ stage \in stages
    /\ stackName = <<>>
    /\ wd = {}
    /\ pc = "new"
    /\ pbuild = 0
    /\ idSeq = 0
    /\ lastPhase = "none"
    /\ runRes = "none"
    /\ buildRes = "none"
    /\ stackRes = NoStackRes
    /\ stackFirst = NoStack
    /\ deployRes = "none"
    /\ pdeployRes = "none"
    /\ urlRes = NoURL
    /\ firstIP = "unset"
    /\ deployed = NoDeployed
    /\ prevSvc = [ip |-> "", rv |-> 0]
    /\ deploys = 0
    /\ ctxDone = FALSE
    /\ events = <<>>
    /\ ops = <<>>

\* No Override is under way.
OverrideIdle ==
    /\ target = EmptyKubernetes
    /\ override = EmptyKubernetes
    /\ overridden = FALSE

\* The environment with every variable empty or unset.
EmptyEnv ==
    [KUBE_CONFIG |-> "", DOCKER_REGISTRY_URL |-> "", DOCKER_REGISTRY_IMAGE |-> "",
     DOCKER_REGISTRY_USERNAME |-> "", DOCKER_REGISTRY_EMAIL |-> "",
     DOCKER_REGISTRY_PASSWORD |-> ""]

NoDoc == [loads |-> FALSE, contexts |-> {}]

NoIgnoreFile == [exists |-> FALSE, lines |-> <<>>]

NoFault == [kind |-> "none", at |-> <<>>]

NoOut == [err |-> ""]

\* Neither Default, Validate nor targz.Build is under way.
FuncIdle ==
    /\ env = EmptyEnv
    /\ kube = EmptyKubernetes
    /\ kubeDoc = NoDoc
    /\ tree = {}
    /\ upignore = NoIgnoreFile
    /\ fault = NoFault
    /\ called = "none"
    /\ ret = NoOut

Init == PipelineInit({<<"hello">>}, {<<"prod">>}) /\ OverrideIdle /\ FuncIdle

\* ---------------------------------------------------------------- Platform.Init
\* Variant: the namespace leaves the stage out.
projectNamespaceNoStage(name, st) == <<"up-">> \o name

\* Platform.projectNamespace: "up-%s-%s" of config.Name and the stage.
projectNamespace(name, st) == <<"up-">> \o name \o <<"-">> \o st

\* Loads the kubeconfig and builds the clients and the stack; any failure
\* returns an error and leaves the platform without a stack.
PlatformInit ==
    /\ pc = "new"
    /\ \E ok \in BOOLEAN :
        /\ pc' = IF ok THEN "ready" ELSE "new"
        /\ stackName' = IF ok THEN projectNamespace(project, stage) ELSE stackName
    /\ UNCHANGED <<clusterVars, password, project, stage, wd, stackRes, stackFirst,
                   deployed, ctxDone, podSpec, overrideVars, funcVars, pbuild, idSeq,
                   lastPhase, runRes, buildRes, deployRes, pdeployRes, urlRes, firstIP,
                   prevSvc, deploys, events, ops>>

\* ---------------------------------------------------------------- Stack.Create
\* Outcomes of the namespace Create call.
NsOutcomes == {"ok", "409", "api", "net"}

\* TRUE when Create goes on to the registry secret after the namespace call:
\* only an *k8s.APIError whose code is not 409 returns.
NamespaceContinues(out) == out # "api"

\* Variant: the secret is ensured whatever the registry password.
SecretWantedAlways(pw) == TRUE

\* The secret is ensured only with a non-empty registry password.
SecretWanted(pw) == pw # ""

\* base64(username:password), abstracted to the password it encodes.
registryAuth(pw) == pw

StackFail ==
    /\ buildRes' = "err"
    /\ pc' = "ready"

\* stack.DockerRegistrySecret, the name of the registry secret.
DockerRegistrySecret == "docker-registry"

\* Stack.Create returns res: the first success is remembered with the
\* namespace and the secret it left.
StackReturns(res, ns, sec) ==
    /\ stackRes' = [stackRes EXCEPT !.result = res]
    /\ stackFirst' = IF res = "ok" /\ ~stackFirst.set
                     THEN [set |-> TRUE, ns |-> ns, secret |-> sec]
                     ELSE stackFirst

\* Platform.Build begins: ctx, then stack.Create's namespace call.
CallBuild ==
    /\ pc = "ready"
    /\ idSeq < MaxBuilds
    /\ pc' = "stack_ns"
    /\ buildRes' = "none"
    /\ runRes' = "none"
    /\ lastPhase' = "none"
    /\ ops' = <<>>
    /\ events' = <<>>
    /\ stackRes' = NoStackRes
    /\ ctxDone' = FALSE
    /\ UNCHANGED <<clusterVars, password, project, stage, stackName, wd, stackFirst,
                   deployed, podSpec, overrideVars, funcVars, pbuild, idSeq, deployRes,
                   pdeployRes, urlRes, firstIP, prevSvc, deploys>>

StackCreateNamespace ==
    /\ pc = "stack_ns"
    /\ \E out \in NsOutcomes :
        /\ out = "ok" => ~nsExists
        /\ out = "409" => nsExists
        /\ nsExists' = (nsExists \/ out = "ok")
        /\ Log("createNamespace", out = "ok")
        /\ IF NamespaceContinues(out)
           THEN /\ pc' = IF SecretWanted(password) THEN "stack_secret_get" ELSE "build_new"
                /\ UNCHANGED buildRes
                /\ IF SecretWanted(password)
                   THEN /\ stackRes' = [stackRes EXCEPT !.namespace = out]
                        /\ UNCHANGED stackFirst
                   ELSE /\ stackRes' = [namespace |-> out, result |-> "ok"]
                        /\ stackFirst' = IF ~stackFirst.set
                                         THEN [set |-> TRUE, ns |-> nsExists', secret |-> secret]
                                         ELSE stackFirst
           ELSE /\ StackFail
                /\ stackRes' = [namespace |-> out, result |-> "err"]
                /\ UNCHANGED stackFirst
    /\ UNCHANGED <<secret, podExists, podPhase, workload, service, bucket, objects,
                   password, project, stage, stackName, wd, deployed, ctxDone, podSpec,
                   overrideVars, funcVars, pbuild, idSeq, lastPhase, runRes, deployRes,
                   pdeployRes, urlRes, firstIP, prevSvc, deploys, events>>

\* createDockerRegistrySecret: Get, then Create on any Get error, else Update.
StackSecretGet ==
    /\ pc = "stack_secret_get"
    /\ \E found \in BOOLEAN :
        /\ found => secret.present
        /\ Log("getSecret", found)
        /\ pc' = IF found THEN "stack_secret_update" ELSE "stack_secret_create"
    /\ UNCHANGED <<clusterVars, password, project, stage, stackName, wd, stackRes,
                   stackFirst, deployed, ctxDone, podSpec, overrideVars, funcVars,
                   pbuild, idSeq, lastPhase, runRes, buildRes, deployRes, pdeployRes,
                   urlRes, firstIP, prevSvc, deploys, events>>

StackSecretCreate ==
    /\ pc = "stack_secret_create"
    /\ \E ok \in BOOLEAN :
        /\ ok => (nsExists /\ ~secret.present)
        /\ Log("createSecret", ok)
        /\ secret' = IF ok THEN [present |-> TRUE, auth |-> registryAuth(password),
                                  ns |-> stackName]
                            ELSE secret
        /\ StackReturns(IF ok THEN "ok" ELSE "err", nsExists, secret')
        /\ IF ok THEN pc' = "build_new" /\ UNCHANGED buildRes ELSE StackFail
    /\ UNCHANGED <<nsExists, podExists, podPhase, workload, service, bucket, objects,
                   password, project, stage, stackName, wd, deployed, ctxDone, podSpec,
                   overrideVars, funcVars, pbuild, idSeq, lastPhase, runRes, deployRes,
                   pdeployRes, urlRes, firstIP, prevSvc, deploys, events>>

StackSecretUpdate ==
    /\ pc = "stack_secret_update"
    /\ \E ok \in BOOLEAN :
        /\ ok => secret.present
        /\ Log("updateSecret", ok)
        /\ secret' = IF ok THEN [present |-> TRUE, auth |-> registryAuth(password),
                                  ns |-> stackName]
                            ELSE secret
        /\ StackReturns(IF ok THEN "ok" ELSE "err", nsExists, secret')
        /\ IF ok THEN pc' = "build_new" /\ UNCHANGED buildRes ELSE StackFail
    /\ UNCHANGED <<nsExists, podExists, podPhase, workload, service, bucket, objects,
                   password, project, stage, stackName, wd, deployed, ctxDone, podSpec,
                   overrideVars, funcVars, pbuild, idSeq, lastPhase, runRes, deployRes,
                   pdeployRes, urlRes, firstIP, prevSvc, deploys, events>>

\* ---------------------------------------------------------------- build.New
\* xid.New(): the next id, never produced before in this run.
NewId(n) == n + 1

\* Platform.Build stores the new build in p.build before running it; the
\* error value of stack.Create is not kept past this point.
AssignBuild(old, new) == new

BuildNew ==
    /\ pc = "build_new"
    /\ idSeq' = NewId(idSeq)
    /\ pbuild' = AssignBuild(pbuild, NewId(idSeq))
    /\ pc' = "run_tarball"
    /\ stackRes' = NoStackRes
    /\ UNCHANGED <<clusterVars, password, project, stage, stackName, wd, stackFirst,
                   deployed, ctxDone, podSpec, overrideVars, funcVars, lastPhase,
                   runRes, buildRes, deployRes, pdeployRes, urlRes, firstIP, prevSvc,
                   deploys, events, ops>>

\* ---------------------------------------------------------------- Build.Run
\* Run returns an error; Platform.Build wraps it and returns.
RunFail ==
    /\ runRes' = "err"
    /\ buildRes' = "err"
    /\ pc' = "ready"

RunGoes(next) ==
    IF next = "fail" THEN RunFail
    ELSE pc' = next /\ UNCHANGED <<runRes, buildRes>>

AfterTarball(ok) == IF ok THEN "run_bucket_exists" ELSE "fail"

\* Variant: the bucket is created whatever the existence check reports.
AfterBucketExistsAlwaysMakes(ok, exists) ==
    IF ~ok THEN "fail" ELSE "run_make_bucket"

AfterBucketExists(ok, exists) ==
    IF ~ok THEN "fail" ELSE IF exists THEN "run_put" ELSE "run_make_bucket"

AfterMakeBucket(ok) == IF ok THEN "run_put" ELSE "fail"

\* Variant: the error of the upload is dropped.
AfterPutIgnoringError(ok) == "run_create_pod"

AfterPut(ok) == IF ok THEN "run_create_pod" ELSE "fail"

AfterCreatePod(ok) == IF ok THEN "run_watch" ELSE "fail"

AfterWatch(ok) == IF ok THEN "run_next" ELSE "fail"

\* The files Build.Run injects into the working directory.
Injected == {"up-proxy", "Dockerfile.up"}

\* injectProxy: writes up-proxy, then Dockerfile.up; returns at the first
\* write that fails.  w1, w2: the writes succeed.
injectProxy(files, w1, w2) ==
    IF ~w1 THEN [ok |-> FALSE, files |-> files]
    ELSE IF ~w2 THEN [ok |-> FALSE, files |-> files \cup {"up-proxy"}]
    ELSE [ok |-> TRUE, files |-> files \cup Injected]

\* removeProxy: removes both files.
removeProxy(files) == files \ Injected

\* tarball(): an injectProxy error returns before removeProxy is deferred;
\* past that point removeProxy runs on every return.  pk: packaging succeeds.
tarball(files, w1, w2, pk) ==
    LET inj == injectProxy(files, w1, w2)
    IN IF ~inj.ok THEN [ok |-> FALSE, files |-> inj.files]
       ELSE [ok |-> pk, files |-> removeProxy(inj.files)]

\* b.tarball(): inject the proxy, package the directory, remove the proxy.
RunTarball ==
    /\ pc = "run_tarball"
    /\ \E w1 \in BOOLEAN, w2 \in BOOLEAN, pk \in BOOLEAN :
        LET t == tarball(wd, w1, w2, pk)
        IN /\ wd' = t.files
           /\ Log("package", t.ok)
           /\ RunGoes(AfterTarball(t.ok))
    /\ UNCHANGED <<clusterVars, password, project, stage, stackName, stackRes,
                   stackFirst, deployed, ctxDone, podSpec, overrideVars, funcVars,
                   pbuild, idSeq, lastPhase, deployRes, pdeployRes, urlRes, firstIP,
                   prevSvc, deploys, events>>

\* The key of the uploaded tarball: "%s/build-%s.tar.gz" of namespace and id.
ObjectKey(ns, id) == ns \o <<"/", "build-", id, ".tar.gz">>

\* b.upload(): BucketExists, MakeBucket when missing, PutObject.
RunBucketExists ==
    /\ pc = "run_bucket_exists"
    /\ \E ok \in BOOLEAN :
        /\ Log("bucketExists", ok)
        /\ RunGoes(AfterBucketExists(ok, bucket))
    /\ UNCHANGED <<clusterVars, password, project, stage, stackName, wd, stackRes,
                   stackFirst, deployed, ctxDone, podSpec, overrideVars, funcVars,
                   pbuild, idSeq, lastPhase, deployRes, pdeployRes, urlRes, firstIP,
                   prevSvc, deploys, events>>

RunMakeBucket ==
    /\ pc = "run_make_bucket"
    /\ \E ok \in BOOLEAN :
        /\ ok => ~bucket
        /\ bucket' = (bucket \/ ok)
        /\ Log("makeBucket", ok)
        /\ RunGoes(AfterMakeBucket(ok))
    /\ UNCHANGED <<nsExists, secret, podExists, podPhase, workload, service, objects,
                   password, project, stage, stackName, wd, stackRes, stackFirst,
                   deployed, ctxDone, podSpec, overrideVars, funcVars, pbuild, idSeq,
                   lastPhase, deployRes, pdeployRes, urlRes, firstIP, prevSvc, deploys,
                   events>>

RunPutObject ==
    /\ pc = "run_put"
    /\ \E ok \in BOOLEAN :
        /\ ok => bucket
        /\ objects' = IF ok THEN objects \cup {ObjectKey(stackName, pbuild)} ELSE objects
        /\ Log("putObject", ok)
        /\ RunGoes(AfterPut(ok))
    /\ UNCHANGED <<nsExists, secret, podExists, podPhase, workload, service, bucket,
                   password, project, stage, stackName, wd, stackRes, stackFirst,
                   deployed, ctxDone, podSpec, overrideVars, funcVars, pbuild, idSeq,
                   lastPhase, deployRes, pdeployRes, urlRes, firstIP, prevSvc, deploys,
                   events>>

\* Build.kanikoDestination: "%s/%s:%s" of registry url, image and build id.
kanikoDestination(registry, image, id) == <<registry, "/", image, ":", id>>

\* The builder pod: its namespace, the --destination argument of kaniko and
\* the secret its docker-config volume mounts.
pod(id) ==
    [namespace |-> stackName,
     destination |-> kanikoDestination(RegistryURL, RegistryImage, id),
     secretVolume |-> DockerRegistrySecret]

\* Variant: the watcher is given a context that is never cancelled.
WatchContextBackground(done) == FALSE

\* The watcher is created with the ctx of Run: it is done when ctx is.
WatchContext(done) == done

\* b.k8s.Create(ctx, pod): the pod starts in phase Pending.
RunCreatePod ==
    /\ pc = "run_create_pod"
    /\ \E ok \in BOOLEAN :
        /\ ok => (nsExists /\ ~podExists[pbuild] /\ ~ctxDone)
        /\ podSpec' = IF ok
                      THEN [podSpec EXCEPT ![pbuild] = [ns |-> pod(pbuild).namespace,
                                                        dest |-> pod(pbuild).destination]]
                      ELSE podSpec
        /\ podExists' = IF ok THEN [podExists EXCEPT ![pbuild] = TRUE] ELSE podExists
        /\ podPhase' = IF ok THEN [podPhase EXCEPT ![pbuild] = "Pending"] ELSE podPhase
        /\ Log("createPod", ok)
        /\ RunGoes(AfterCreatePod(ok))
    /\ UNCHANGED <<nsExists, secret, workload, service, bucket, objects, password,
                   project, stage, stackName, wd, stackRes, stackFirst, deployed,
                   ctxDone, overrideVars, funcVars, pbuild, idSeq, lastPhase,
                   deployRes, pdeployRes, urlRes, firstIP, prevSvc, deploys, events>>

\* b.k8s.Watch(ctx, namespace, pod, up-build-id=ID,up-process=build).
RunWatch ==
    /\ pc = "run_watch"
    /\ \E ok \in BOOLEAN :
        /\ ok => ~ctxDone
        /\ Log("watch", ok)
        /\ RunGoes(AfterWatch(ok))
    /\ UNCHANGED <<clusterVars, password, project, stage, stackName, wd, stackRes,
                   stackFirst, deployed, ctxDone, podSpec, overrideVars, funcVars,
                   pbuild, idSeq, lastPhase, deployRes, pdeployRes, urlRes, firstIP,
                   prevSvc, deploys, events>>

\* Variant: the loop goes on after a Succeeded pod.
OnNextIgnoresSucceeded(ok, phase) ==
    IF ~ok THEN "watcherr"
    ELSE IF phase = "Failed" THEN "failed"
    ELSE "continue"

\* What the loop does with one watcher.Next: "watcherr" when Next failed,
\* otherwise by the phase of the pod the event carries.
OnNext(ok, phase) ==
    IF ~ok THEN "watcherr"
    ELSE IF phase = "Failed" THEN "failed"
    ELSE IF phase = "Succeeded" THEN "succeeded"
    ELSE "continue"

\* Variant: the pod is deleted on a failed Next as well.
DeletesPodOnWatchError(branch) == branch \in {"failed", "succeeded", "watcherr"}

\* The branches that call b.k8s.Delete(ctx, pod).
DeletesPod(branch) == branch \in {"failed", "succeeded"}

\* Variant: the Failed branch leaves the loop like the Succeeded one.
RunResultFailedBreaks(branch, delOk) ==
    IF branch \in {"succeeded", "failed"} THEN "ok" ELSE "err"

\* What Run returns from a branch that leaves the loop; the result of the
\* Delete call is dropped.
RunResult(branch, delOk) == IF branch = "succeeded" THEN "ok" ELSE "err"

RunNext ==
    /\ pc = "run_next"
    /\ \E ok \in BOOLEAN, delOk \in BOOLEAN :
        /\ ok => (podExists[pbuild] /\ ~WatchContext(ctxDone))
        /\ LET phase == IF ok THEN podPhase[pbuild] ELSE "none"
               branch == OnNext(ok, phase)
           IN /\ lastPhase' = IF ok THEN phase ELSE lastPhase
              /\ IF DeletesPod(branch)
                 THEN podExists' = [podExists EXCEPT ![pbuild] = podExists[pbuild] /\ ~delOk]
                 ELSE ~delOk /\ UNCHANGED podExists
              /\ ops' = ops \o (IF ok THEN <<>> ELSE <<Op("next", FALSE)>>)
                            \o (IF DeletesPod(branch) THEN <<Op("deletePod", delOk)>> ELSE <<>>)
              /\ IF branch = "continue"
                 THEN UNCHANGED <<pc, runRes, buildRes, events>>
                 ELSE /\ runRes' = RunResult(branch, delOk)
                      /\ buildRes' = runRes'
                      /\ events' = IF runRes' = "ok"
                                   THEN Append(events, "platform.build.zip")
                                   ELSE events
                      /\ pc' = "ready"
    /\ UNCHANGED <<nsExists, secret, podPhase, workload, service, bucket, objects,
                   password, project, stage, stackName, wd, stackRes, stackFirst,
                   deployed, ctxDone, podSpec, overrideVars, funcVars, pbuild, idSeq,
                   deployRes, pdeployRes, urlRes, firstIP, prevSvc, deploys>>

\* ---------------------------------------------------------------- cluster: builder pod
\* The kubelet moves the pod through its phases; the pod mounts the
\* docker-registry secret, so it cannot leave Pending without it.
PodStep ==
    \E b \in BuildIds, ph \in Phases :
        /\ podExists[b]
        /\ \/ podPhase[b] = "Pending" /\ secret.present /\ ph \in {"Running", "Failed"}
           \/ podPhase[b] = "Running" /\ ph \in {"Succeeded", "Failed"}
        /\ podPhase' = [podPhase EXCEPT ![b] = ph]
        /\ UNCHANGED <<nsExists, secret, podExists, workload, service, bucket, objects,
                       password, project, stage, stackName, wd, stackRes, stackFirst,
                       deployed, ctxDone, podSpec, overrideVars, funcVars, pc, pbuild,
                       idSeq, lastPhase, runRes, buildRes, deployRes, pdeployRes,
                       urlRes, firstIP, prevSvc, deploys, events, ops>>

\* ---------------------------------------------------------------- Deployment
\* The caller runs Deploy only after a Build that returned success.
CallerMayDeploy == buildRes = "ok"

\* Variant: the image is named by the registry image alone.
ImageUntagged(registry, image, id) == <<registry, "/", image>>

\* Build.Image: the kaniko destination of the build.
Image(registry, image, id) == kanikoDestination(registry, image, id)

\* Variant: the deployment is made for the build before the one given.
DeploymentBuildStale(b) == IF b > 1 THEN b - 1 ELSE b

\* Deployment.New keeps the build it is given.
DeploymentBuild(b) == b

deploymentLabels(id) == [project |-> "hello", process |-> "deploy", buildId |-> id]

\* The desired workload: labels, one replica, one container running the image.
deployment(id) ==
    [labels |-> deploymentLabels(id), replicas |-> 1, namespace |-> stackName,
     image |-> Image(RegistryURL, RegistryImage, id)]

\* Variant: the service is built without the observed cluster IP.
serviceObjectFresh(previousIP, resourceVersion) ==
    [clusterIP |-> "", resourceVersion |-> resourceVersion, namespace |-> stackName]

\* The desired service; ClusterIP and ResourceVersion are the observed ones.
serviceObject(previousIP, resourceVersion) ==
    [clusterIP |-> previousIP, resourceVersion |-> resourceVersion,
     namespace |-> stackName]

\* The cluster accepts the Update of a service that exists, keeps its
\* cluster IP and names its current resource version.
ServiceUpdateAccepted(s, svc) ==
    /\ svc.present
    /\ s.clusterIP = svc.clusterIP
    /\ s.resourceVersion = svc.resourceVersion

\* The parts of the workload and service pair that a Deploy decides.
Pair(w, svc) ==
    [buildId |-> w.buildId, image |-> w.image, workloadNs |-> w.ns,
     clusterIP |-> svc.clusterIP, serviceNs |-> svc.ns]

\* operation starts as Update and becomes Create when the Get failed.
Operation(found) == IF found THEN "update" ELSE "create"

\* The readiness test of the watch loop.
Ready(status) == status.available = status.replicas

DeployFail ==
    /\ deployRes' = "err"
    /\ pdeployRes' = "err"
    /\ pc' = "ready"

DeployGoes(next) ==
    IF next = "fail" THEN DeployFail
    ELSE pc' = next /\ UNCHANGED <<deployRes, pdeployRes>>

AfterApply(ok) == IF ok THEN "dep_watch" ELSE "fail"

AfterDeployWatch(ok) == IF ok THEN "dep_next" ELSE "fail"

\* Variant: a failed Next leaves the loop instead of returning.
AfterDeployNextBreakOnError(ok, ready) ==
    IF ~ok \/ ready THEN "dep_get_service" ELSE "dep_next"

AfterDeployNext(ok, ready) ==
    IF ~ok THEN "fail" ELSE IF ready THEN "dep_get_service" ELSE "dep_next"

\* Variant: the error of the service apply is dropped.
ServiceApplyResultIgnoringError(ok) == "ok"

\* What Deploy returns after the service apply.
ServiceApplyResult(ok) == IF ok THEN "ok" ELSE "err"

\* Platform.Deploy begins: deployment.New(...).Deploy(ctx), first the Get.
CallDeploy ==
    /\ pc = "ready"
    /\ CallerMayDeploy
    /\ deploys < MaxDeploys
    /\ deploys' = deploys + 1
    /\ pc' = "dep_get"
    /\ deployRes' = "none"
    /\ pdeployRes' = "none"
    /\ prevSvc' = [ip |-> "", rv |-> 0]
    /\ ops' = <<>>
    /\ events' = <<>>
    /\ UNCHANGED <<clusterVars, password, project, stage, stackName, wd, stackRes,
                   stackFirst, deployed, ctxDone, podSpec, overrideVars, funcVars,
                   pbuild, idSeq, lastPhase, runRes, buildRes, urlRes, firstIP>>

DeployGetWorkload ==
    /\ pc = "dep_get"
    /\ \E found \in BOOLEAN :
        /\ found => workload.present
        /\ Log("getWorkload", found)
        /\ pc' = IF Operation(found) = "create" THEN "dep_create" ELSE "dep_update"
    /\ UNCHANGED <<clusterVars, password, project, stage, stackName, wd, stackRes,
                   stackFirst, deployed, ctxDone, podSpec, overrideVars, funcVars,
                   pbuild, idSeq, lastPhase, runRes, buildRes, deployRes, pdeployRes,
                   urlRes, firstIP, prevSvc, deploys, events>>

\* Create of the workload: a new object has an empty status.
DeployCreateWorkload ==
    /\ pc = "dep_create"
    /\ \E ok \in BOOLEAN :
        /\ ok => (nsExists /\ ~workload.present)
        /\ LET d == deployment(DeploymentBuild(pbuild))
           IN workload' = IF ok
                          THEN [present |-> TRUE, buildId |-> d.labels.buildId,
                                image |-> d.image, replicas |-> 0, available |-> 0,
                                updated |-> 0, updatedAvailable |-> 0,
                                ns |-> d.namespace]
                          ELSE workload
        /\ Log("createWorkload", ok)
        /\ DeployGoes(AfterApply(ok))
    /\ UNCHANGED <<nsExists, secret, podExists, podPhase, service, bucket, objects,
                   password, project, stage, stackName, wd, stackRes, stackFirst,
                   deployed, ctxDone, podSpec, overrideVars, funcVars, pbuild, idSeq,
                   lastPhase, runRes, buildRes, urlRes, firstIP, prevSvc, deploys,
                   events>>

\* Update of the workload: the labels change at once; a changed pod template
\* starts a new revision whose replicas are still to come, while the status
\* goes on describing the replicas of the previous revision.
DeployUpdateWorkload ==
    /\ pc = "dep_update"
    /\ \E ok \in BOOLEAN :
        /\ ok => workload.present
        /\ LET d == deployment(DeploymentBuild(pbuild))
           IN workload' = IF ~ok THEN workload
                          ELSE IF d.image = workload.image
                          THEN [workload EXCEPT !.buildId = d.labels.buildId]
                          ELSE [workload EXCEPT !.buildId = d.labels.buildId,
                                                !.image = d.image,
                                                !.updated = 0,
                                                !.updatedAvailable = 0]
        /\ Log("updateWorkload", ok)
        /\ DeployGoes(AfterApply(ok))
    /\ UNCHANGED <<nsExists, secret, podExists, podPhase, service, bucket, objects,
                   password, project, stage, stackName, wd, stackRes, stackFirst,
                   deployed, ctxDone, podSpec, overrideVars, funcVars, pbuild, idSeq,
                   lastPhase, runRes, buildRes, urlRes, firstIP, prevSvc, deploys,
                   events>>

\* Watch(ctx, namespace, deployment, up-build-id=ID,up-process=deploy).
DeployWatch ==
    /\ pc = "dep_watch"
    /\ \E ok \in BOOLEAN :
        /\ Log("watchWorkload", ok)
        /\ DeployGoes(AfterDeployWatch(ok))
    /\ UNCHANGED <<clusterVars, password, project, stage, stackName, wd, stackRes,
                   stackFirst, deployed, ctxDone, podSpec, overrideVars, funcVars,
                   pbuild, idSeq, lastPhase, runRes, buildRes, urlRes, firstIP,
                   prevSvc, deploys, events>>

\* The event that ends the readiness loop, with the status it carried.
Event(status) ==
    [op |-> "event", ok |-> TRUE, replicas |-> status.replicas,
     available |-> status.available]

\* The selector of the readiness watch matches the workload.
Selected(w, id) == w.present /\ w.buildId = id

\* One watcher.Next of the readiness loop: an error, or an event with the
\* current status of the selected workload.
DeployNext ==
    /\ pc = "dep_next"
    /\ \E ok \in BOOLEAN :
        /\ ok => Selected(workload, DeploymentBuild(pbuild))
        /\ LET status == [replicas |-> workload.replicas, available |-> workload.available]
               next == AfterDeployNext(ok, ok /\ Ready(status))
           IN /\ ops' = IF ~ok THEN Append(ops, Op("next", FALSE))
                        ELSE IF next = "dep_next" THEN ops
                        ELSE Append(ops, Event(status))
              /\ DeployGoes(next)
    /\ UNCHANGED <<clusterVars, password, project, stage, stackName, wd, stackRes,
                   stackFirst, deployed, ctxDone, podSpec, overrideVars, funcVars,
                   pbuild, idSeq, lastPhase, runRes, buildRes, urlRes, firstIP,
                   prevSvc, deploys, events>>

DeployGetService ==
    /\ pc = "dep_get_service"
    /\ \E found \in BOOLEAN :
        /\ found => service.present
        /\ Log("getService", found)
        /\ prevSvc' = IF found
                      THEN [ip |-> service.clusterIP, rv |-> service.resourceVersion]
                      ELSE prevSvc
        /\ pc' = IF Operation(found) = "create" THEN "dep_create_service"
                 ELSE "dep_update_service"
    /\ UNCHANGED <<clusterVars, password, project, stage, stackName, wd, stackRes,
                   stackFirst, deployed, ctxDone, podSpec, overrideVars, funcVars,
                   pbuild, idSeq, lastPhase, runRes, buildRes, deployRes, pdeployRes,
                   urlRes, firstIP, deploys, events>>

\* Deployment.Deploy returns after the service apply.
DeployReturns(ok) ==
    /\ deployRes' = ServiceApplyResult(ok)
    /\ IF deployRes' = "ok"
       THEN /\ pc' = "pdep_url"
            /\ UNCHANGED pdeployRes
            /\ firstIP' = IF firstIP = "unset" THEN service'.clusterIP ELSE firstIP
            /\ deployed' = IF deployed.build = pbuild
                           THEN [deployed EXCEPT !.again = TRUE]
                           ELSE [build |-> pbuild, again |-> FALSE,
                                 pair |-> Pair(workload, service')]
       ELSE /\ pc' = "ready"
            /\ pdeployRes' = "err"
            /\ UNCHANGED <<firstIP, deployed>>

\* Create of the service: the cluster allocates the address of a service
\* created without one.
DeployCreateService ==
    /\ pc = "dep_create_service"
    /\ \E ok \in BOOLEAN, ip \in ClusterIPs :
        /\ ok => (nsExists /\ ~service.present)
        /\ LET s == serviceObject(prevSvc.ip, prevSvc.rv)
           IN service' = IF ok
                         THEN [present |-> TRUE,
                               clusterIP |-> IF s.clusterIP = "" THEN ip ELSE s.clusterIP,
                               resourceVersion |-> 1, ns |-> s.namespace]
                         ELSE service
        /\ Log("createService", ok)
        /\ DeployReturns(ok)
    /\ UNCHANGED <<nsExists, secret, podExists, podPhase, workload, bucket, objects,
                   password, project, stage, stackName, wd, stackRes, stackFirst,
                   ctxDone, podSpec, overrideVars, funcVars, pbuild, idSeq, lastPhase,
                   runRes, buildRes, urlRes, prevSvc, deploys, events>>

\* Update of the service: the cluster rejects a changed cluster IP (the field
\* is immutable) and a resource version that is not the current one.
DeployUpdateService ==
    /\ pc = "dep_update_service"
    /\ \E ok \in BOOLEAN :
        /\ LET s == serviceObject(prevSvc.ip, prevSvc.rv)
           IN /\ ok => ServiceUpdateAccepted(s, service)
              /\ service' = IF ok
                            THEN [service EXCEPT !.resourceVersion = @ + 1]
                            ELSE service
        /\ Log("updateService", ok)
        /\ DeployReturns(ok)
    /\ UNCHANGED <<nsExists, secret, podExists, podPhase, workload, bucket, objects,
                   password, project, stage, stackName, wd, stackRes, stackFirst,
                   ctxDone, podSpec, overrideVars, funcVars, pbuild, idSeq, lastPhase,
                   runRes, buildRes, urlRes, prevSvc, deploys, events>>

\* ---------------------------------------------------------------- Platform.URL
\* Variant: the error of the Get is dropped.
URLResultIgnoringError(ok, svc) == [called |-> TRUE, err |-> FALSE, ip |-> svc.clusterIP]

\* Get of the service: its cluster IP, or the error of the Get.
URLResult(ok, svc) ==
    IF ok THEN [called |-> TRUE, err |-> FALSE, ip |-> svc.clusterIP]
    ELSE [called |-> TRUE, err |-> TRUE, ip |-> ""]

CallURL ==
    /\ pc = "ready"
    /\ \E ok \in BOOLEAN :
        /\ ok => service.present
        /\ urlRes' = URLResult(ok, service)
    /\ UNCHANGED <<clusterVars, password, project, stage, stackName, wd, stackRes,
                   stackFirst, deployed, ctxDone, podSpec, overrideVars, funcVars, pc,
                   pbuild, idSeq, lastPhase, runRes, buildRes, deployRes, pdeployRes,
                   firstIP, prevSvc, deploys, events, ops>>

\* The rest of Platform.Deploy: fetch the URL, emit platform.deploy.url, and
\* the deferred platform.deploy.complete on every return from here on.
PlatformDeployURL ==
    /\ pc = "pdep_url"
    /\ \E ok \in BOOLEAN :
        /\ ok => service.present
        /\ urlRes' = URLResult(ok, service)
        /\ Log("getServiceURL", ok)
        /\ pdeployRes' = IF urlRes'.err THEN "err" ELSE "ok"
        /\ events' = IF urlRes'.err
                     THEN Append(events, "platform.deploy.complete")
                     ELSE events \o <<"platform.deploy.url", "platform.deploy.complete">>
    /\ pc' = "ready"
    /\ UNCHANGED <<clusterVars, password, project, stage, stackName, wd, stackRes,
                   stackFirst, deployed, ctxDone, podSpec, overrideVars, funcVars,
                   pbuild, idSeq, lastPhase, runRes, buildRes, deployRes, firstIP,
                   prevSvc, deploys>>

\* ---------------------------------------------------------------- cluster: workload
\* The deployment controller rolls the workload to its current revision:
\* it starts the new replica, the replica becomes available, and the
\* replicas of the previous revision are removed.
WorkloadStep ==
    /\ workload.present
    /\ \/ /\ workload.updated = 0
          /\ workload' = [workload EXCEPT !.updated = 1, !.replicas = @ + 1]
       \/ /\ workload.updated = 1
          /\ workload.updatedAvailable = 0
          /\ workload' = [workload EXCEPT !.updatedAvailable = 1, !.available = @ + 1]
       \/ /\ workload.updatedAvailable = 1
          /\ workload.replicas > workload.updated
          /\ workload' = [workload EXCEPT !.replicas = workload.updated,
                                          !.available = workload.updatedAvailable]
    /\ UNCHANGED <<nsExists, secret, podExists, podPhase, service, bucket, objects,
                   password, project, stage, stackName, wd, stackRes, stackFirst,
                   deployed, ctxDone, podSpec, overrideVars, funcVars, pc, pbuild,
                   idSeq, lastPhase, runRes, buildRes, deployRes, pdeployRes, urlRes,
                   firstIP, prevSvc, deploys, events, ops>>

\* ---------------------------------------------------------------- specification
Next ==
    \/ PlatformInit
    \/ CallBuild
    \/ StackCreateNamespace
    \/ StackSecretGet
    \/ StackSecretCreate
    \/ StackSecretUpdate
    \/ BuildNew
    \/ RunTarball
    \/ RunBucketExists
    \/ RunMakeBucket
    \/ RunPutObject
    \/ RunCreatePod
    \/ RunWatch
    \/ RunNext
    \/ PodStep
    \/ CallDeploy
    \/ DeployGetWorkload
    \/ DeployCreateWorkload
    \/ DeployUpdateWorkload
    \/ DeployWatch
    \/ DeployNext
    \/ DeployGetService
    \/ DeployCreateService
    \/ DeployUpdateService
    \/ PlatformDeployURL
    \/ CallURL
    \/ WorkloadStep

Spec == Init /\ [][Next]_vars

\* ---------------------------------------------------------------- Run under a ctx that can be cancelled
\* The steps of Build.Run.
RunPcs == {"run_tarball", "run_bucket_exists", "run_make_bucket", "run_put",
           "run_create_pod", "run_watch", "run_next"}

\* Whoever holds the ctx given to Run cancels it while Run is under way.
Cancel ==
    /\ pc \in RunPcs
    /\ ~ctxDone
    /\ ctxDone' = TRUE
    /\ UNCHANGED <<clusterVars, password, project, stage, stackName, wd, stackRes,
                   stackFirst, deployed, podSpec, overrideVars, funcVars, pc, pbuild,
                   idSeq, lastPhase, runRes, buildRes, deployRes, pdeployRes, urlRes,
                   firstIP, prevSvc, deploys, events, ops>>

InitCtx == Init /\ password = "secret" /\ ~bucket

NextCtx == Next \/ Cancel

SpecCtx == InitCtx /\ [][NextCtx]_vars

\* ---------------------------------------------------------------- Run with a watch that delivers
\* A step of the watch loop in which watcher.Next delivered an event.
RunNextDelivered ==
    /\ RunNext
    /\ \A i \in (Len(ops) + 1)..Len(ops') : ops'[i] # Op("next", FALSE)

InitRun == Init /\ password = "secret"

\* Platform.Build alone: Stack.Create, build.New, Build.Run and the pod.
NextRun ==
    \/ PlatformInit
    \/ CallBuild
    \/ StackCreateNamespace
    \/ StackSecretGet
    \/ StackSecretCreate
    \/ StackSecretUpdate
    \/ BuildNew
    \/ RunTarball
    \/ RunBucketExists
    \/ RunMakeBucket
    \/ RunPutObject
    \/ RunCreatePod
    \/ RunWatch
    \/ RunNext
    \/ PodStep

\* The loop of Run handles every event the watch delivers.
SpecRun == InitRun /\ [][NextRun]_vars /\ WF_vars(RunNextDelivered)

\* ---------------------------------------------------------------- projects and stages
\* Projects as <<name, stage>>, each a sequence of pieces: two projects
\* whose names and stages differ.
Projects == {<< <<"a", "-", "b">>, <<"c">> >>, << <<"a">>, <<"b", "-", "c">> >>}

InitNs ==
    /\ \E pr \in Projects : PipelineInit({pr[1]}, {pr[2]})
    /\ OverrideIdle
    /\ FuncIdle
    /\ ~nsExists
    /\ ~bucket
    /\ password = "secret"

SpecNs == InitNs /\ [][Next]_vars

\* ---------------------------------------------------------------- Kubernetes.Override
\* One `if k.X != "" { c.Kubernetes.X = k.X }` of Override.
Assign(v, old) == IF v # "" THEN v ELSE old

\* Kubernetes.Override(c): the configuration c.Kubernetes after the call.
\* With a non-empty k.Storage.Bucket the code assigns Storage.Secure, not
\* Storage.Bucket.
Override(k, c) ==
    [KubeConfig  |-> Assign(k.KubeConfig, c.KubeConfig),
     KubeContext |-> Assign(k.KubeContext, c.KubeContext),
     Endpoint    |-> Assign(k.Endpoint, c.Endpoint),
     AccessKey   |-> Assign(k.AccessKey, c.AccessKey),
     SecretKey   |-> Assign(k.SecretKey, c.SecretKey),
     Secure      |-> LET s1 == IF k.Secure # FALSE THEN k.Secure ELSE c.Secure
                     IN IF k.Bucket # "" THEN k.Secure ELSE s1,
     Bucket      |-> c.Bucket,
     Location    |-> Assign(k.Location, c.Location),
     URL         |-> Assign(k.URL, c.URL),
     Image       |-> Assign(k.Image, c.Image),
     Username    |-> Assign(k.Username, c.Username),
     Email       |-> Assign(k.Email, c.Email),
     Password    |-> Assign(k.Password, c.Password)]

\* The string fields of the Kubernetes configuration.
StringFields == {"KubeConfig", "KubeContext", "Endpoint", "AccessKey", "SecretKey",
                 "Bucket", "Location", "URL", "Image", "Username", "Email", "Password"}

\* Configurations whose string fields are each one of vals.
Configs(vals) ==
    [KubeConfig : vals, KubeContext : vals, Endpoint : vals, AccessKey : vals,
     SecretKey : vals, Secure : BOOLEAN, Bucket : vals, Location : vals,
     URL : vals, Image : vals, Username : vals, Email : vals, Password : vals]

CallOverride ==
    /\ ~overridden
    /\ target' = Override(override, target)
    /\ overridden' = TRUE
    /\ UNCHANGED <<clusterVars, password, project, stage, stackName, wd, stackRes,
                   stackFirst, deployed, ctxDone, podSpec, override, funcVars, pc,
                   pbuild, idSeq, lastPhase, runRes, buildRes, deployRes, pdeployRes,
                   urlRes, firstIP, prevSvc, deploys, events, ops>>

InitOverride ==
    /\ PipelineInit({<<"hello">>}, {<<"prod">>})
    /\ ~nsExists
    /\ ~bucket
    /\ password = ""
    /\ target \in Configs({"t"})
    /\ override \in Configs({"", "o"})
    /\ overridden = FALSE
    /\ FuncIdle

SpecOverride == InitOverride /\ [][CallOverride]_vars

\* ---------------------------------------------------------------- Kubernetes.Default
\* The pipeline at rest, for the functions that are checked on their own.
PipelineIdle ==
    /\ PipelineInit({<<"hello">>}, {<<"prod">>})
    /\ ~nsExists
    /\ ~bucket
    /\ password = ""

\* The frame of a function that is checked on its own.
FuncFrame ==
    UNCHANGED <<clusterVars, password, project, stage, stackName, wd, stackRes,
                stackFirst, deployed, ctxDone, podSpec, overrideVars, pc, pbuild, idSeq,
                lastPhase, runRes, buildRes, deployRes, pdeployRes, urlRes, firstIP,
                prevSvc, deploys, events, ops, env, kube, kubeDoc, tree, upignore, fault>>

\* Variant: the value of the file wins over the variable.
EnvOrFile(v, old) == IF old # "" THEN old ELSE v

\* One `if envX != "" { d.X = envX }` of Default.
EnvOr(v, old) == IF v # "" THEN v ELSE old

\* The kube_config Default falls back to.
DefaultKubeConfig == "~/.kube/config"

\* Kubernetes.Default: d after the call, e the environment.
Default(d, e) ==
    LET fromEnv == EnvOr(e.KUBE_CONFIG, d.KubeConfig)
    IN [d EXCEPT
          !.KubeConfig = IF fromEnv = "" THEN DefaultKubeConfig ELSE fromEnv,
          !.URL = EnvOr(e.DOCKER_REGISTRY_URL, @),
          !.Image = EnvOr(e.DOCKER_REGISTRY_IMAGE, @),
          !.Username = EnvOr(e.DOCKER_REGISTRY_USERNAME, @),
          !.Email = EnvOr(e.DOCKER_REGISTRY_EMAIL, @),
          !.Password = EnvOr(e.DOCKER_REGISTRY_PASSWORD, @)]

\* The field each environment variable stands for.
EnvField ==
    [KUBE_CONFIG |-> "KubeConfig", DOCKER_REGISTRY_URL |-> "URL",
     DOCKER_REGISTRY_IMAGE |-> "Image", DOCKER_REGISTRY_USERNAME |-> "Username",
     DOCKER_REGISTRY_EMAIL |-> "Email", DOCKER_REGISTRY_PASSWORD |-> "Password"]

\* Configurations that differ from c in the fields fs, each one of vals.
Varying(c, fs, vals) ==
    {[f \in DOMAIN c |-> IF f \in fs THEN v[f] ELSE c[f]] : v \in [fs -> vals]}

CallDefault ==
    /\ called = "none"
    /\ called' = "Default"
    /\ ret' = [d |-> Default(kube, env), err |-> ""]
    /\ FuncFrame

InitDefault ==
    /\ PipelineIdle
    /\ OverrideIdle
    /\ env \in [DOMAIN EnvField -> {"", "e"}]
    /\ kube \in Varying([f \in DOMAIN EmptyKubernetes |->
                              IF f = "Secure" THEN FALSE ELSE "t"],
                         {EnvField[v] : v \in DOMAIN EnvField}, {"", "f"})
    /\ kubeDoc = NoDoc
    /\ tree = {}
    /\ upignore = NoIgnoreFile
    /\ fault = NoFault
    /\ called = "none"
    /\ ret = NoOut

SpecDefault == InitDefault /\ [][CallDefault]_vars

\* ---------------------------------------------------------------- Kubernetes.Validate
\* validate.RequiredString: the string is not empty.
RequiredString(str) == str # ""

\* Variant: every context counts as found.
contextFoundAlways(d, doc) == TRUE

\* The loop over config.Contexts: one of them is named d.KubeContext.
contextFound(d, doc) == \E c \in doc.contexts : c = d.KubeContext

\* Kubernetes.Validate: "" for nil, else the field the error is about.
Validate(d, doc) ==
    IF ~RequiredString(d.KubeConfig) THEN "kube_config"
    ELSE IF ~doc.loads THEN "kube_config"
    ELSE IF ~RequiredString(d.KubeContext) THEN "kube_context"
    ELSE IF ~contextFound(d, doc) THEN "kube_context"
    ELSE IF ~RequiredString(d.Endpoint) THEN "storage.endpoint"
    ELSE IF ~RequiredString(d.AccessKey) THEN "storage.access_key"
    ELSE IF ~RequiredString(d.SecretKey) THEN "storage.secret_key"
    ELSE IF ~RequiredString(d.Bucket) THEN "storage.bucket"
    ELSE ""

\* The fields Validate requires, in the order it checks them.
RequiredFields ==
    <<"KubeConfig", "KubeContext", "Endpoint", "AccessKey", "SecretKey", "Bucket">>

\* The contexts a credential document may hold.
Contexts == {"dev", "prod"}

CallValidate ==
    /\ called = "none"
    /\ called' = "Validate"
    /\ ret' = [d |-> kube, err |-> Validate(kube, kubeDoc)]
    /\ FuncFrame

InitValidate ==
    /\ PipelineIdle
    /\ OverrideIdle
    /\ env = EmptyEnv
    /\ kube \in {[c EXCEPT !.KubeContext = x] :
                    c \in Varying([f \in DOMAIN EmptyKubernetes |->
                                      IF f = "Secure" THEN FALSE ELSE "t"],
                                 {"KubeConfig", "Endpoint", "AccessKey", "SecretKey",
                                  "Bucket"}, {"", "f"}),
                    x \in {"", "dev", "staging"}}
    /\ kubeDoc \in [loads : BOOLEAN, contexts : SUBSET Contexts]
    /\ tree = {}
    /\ upignore = NoIgnoreFile
    /\ fault = NoFault
    /\ called = "none"
    /\ ret = NoOut

SpecValidate == InitValidate /\ [][CallValidate]_vars

\* ---------------------------------------------------------------- targz.Build
\* The entries a project directory may hold, in the order filepath.Walk
\* visits them (lexical, a directory before what is below it).  A path is
\* the sequence of its components.  Build walks "." and reads .upignore
\* from the same directory, so the ignore file is one of the entries.
Universe ==
    << [path |-> <<".env">>,                dir |-> FALSE, size |-> 1],
       [path |-> <<".git">>,                dir |-> TRUE,  size |-> 0],
       [path |-> <<".git", ".hooks">>,      dir |-> TRUE,  size |-> 0],
       [path |-> <<".git", "config">>,      dir |-> FALSE, size |-> 2],
       [path |-> <<".pypath">>,             dir |-> TRUE,  size |-> 0],
       [path |-> <<".pypath", "lib.py">>,   dir |-> FALSE, size |-> 3],
       [path |-> <<".upignore">>,           dir |-> FALSE, size |-> 9],
       [path |-> <<"main">>,                dir |-> FALSE, size |-> 4],
       [path |-> <<"node_modules">>,        dir |-> TRUE,  size |-> 0],
       [path |-> <<"node_modules", ".bin">>, dir |-> FALSE, size |-> 5],
       [path |-> <<"src">>,                 dir |-> TRUE,  size |-> 0],
       [path |-> <<"src", ".cache">>,       dir |-> FALSE, size |-> 6],
       [path |-> <<"src", "app.js">>,       dir |-> FALSE, size |-> 7],
       [path |-> <<"up">>,                  dir |-> FALSE, size |-> 8] >>

Paths == {Universe[i].path : i \in DOMAIN Universe}

\* The names of the universe that begin with a dot.
DotNames == {".env", ".git", ".hooks", ".pypath", ".upignore", ".bin", ".cache"}

\* Directory trees: with every entry, the directory it is in.
Trees == {t \in SUBSET Paths : \A q \in t : Len(q) > 1 => <<q[1]>> \in t}

\* Ignore patterns: name is a line like `main`, dot the line `.*`, under a
\* line like `node_modules/**`; neg is the leading `!`.
Deny(name) == [neg |-> FALSE, kind |-> "name", name |-> name]

Allow(name) == [neg |-> TRUE, kind |-> "name", name |-> name]

AllowUnder(name) == [neg |-> TRUE, kind |-> "under", name |-> name]

DenyDot == [neg |-> FALSE, kind |-> "dot", name |-> ".*"]

\* Variant: the patterns without the leading `.*`.
PatternsNoDot(lines) ==
    <<AllowUnder("node_modules"), AllowUnder(".pypath")>>
    \o lines
    \o <<Allow("main"), Allow("server"), Allow("_proxy.js"), Allow("byline.js"),
         Allow("up.json"), Allow("pom.xml"), Allow("build.gradle"),
         Allow("project.clj"), Deny("gin-bin"), Deny("up")>>

\* Variant: the lines of .upignore are read after the trailing rules.
PatternsUserLast(lines) ==
    <<DenyDot>>
    \o <<AllowUnder("node_modules"), AllowUnder(".pypath")>>
    \o <<Allow("main"), Allow("server"), Allow("_proxy.js"), Allow("byline.js"),
         Allow("up.json"), Allow("pom.xml"), Allow("build.gradle"),
         Allow("project.clj"), Deny("gin-bin"), Deny("up")>>
    \o lines

\* The io.MultiReader of Build: `.*`, the two implicit allows, the lines of
\* .upignore, the trailing allows and denies.
Patterns(lines) ==
    <<DenyDot>>
    \o <<AllowUnder("node_modules"), AllowUnder(".pypath")>>
    \o lines
    \o <<Allow("main"), Allow("server"), Allow("_proxy.js"), Allow("byline.js"),
         Allow("up.json"), Allow("pom.xml"), Allow("build.gradle"),
         Allow("project.clj"), Deny("gin-bin"), Deny("up")>>

\* One pattern matches a path: a name or `.*` by one of the components, a
\* `dir/**` by what lies below dir.
Matches(pt, q) ==
    CASE pt.kind = "dot" -> \E i \in DOMAIN q : q[i] \in DotNames
      [] pt.kind = "name" -> \E i \in DOMAIN q : q[i] = pt.name
      [] pt.kind = "under" -> Len(q) > 1 /\ q[1] = pt.name

\* The patterns that match a path, by their place in the order.
Matching(pats, q) == {i \in DOMAIN pats : Matches(pats[i], q)}

\* The greatest of a non-empty set of numbers.
Last(S) == CHOOSE i \in S : \A j \in S : j <= i

\* filter.Match: the path is ignored; the last pattern that matches decides.
Match(pats, q) ==
    /\ Matching(pats, q) # {}
    /\ ~pats[Last(Matching(pats, q))].neg

NoStats == [FilesAdded |-> 0, DirsFiltered |-> 0, FilesFiltered |-> 0,
            SizeUncompressed |-> 0]

\* The walk before its first entry: nothing written, nothing pruned, no error.
WalkStart == [tar |-> <<>>, stats |-> NoStats, pruned |-> {}, err |-> FALSE]

\* Variant: a directory the filter matches is counted and the walk goes on
\* below it.
VisitNoSkip(w, e, pats, flt) ==
    LET fails(kind) == flt = [kind |-> kind, at |-> e.path]
        counted == [w.stats EXCEPT !.FilesAdded = @ + 1,
                                   !.SizeUncompressed = @ + e.size]
    IN IF fails("walk") THEN [w EXCEPT !.err = TRUE]
       ELSE IF Match(pats, e.path)
            THEN IF e.dir
                 THEN [w EXCEPT !.stats.DirsFiltered = @ + 1]
                 ELSE [w EXCEPT !.stats.FilesFiltered = @ + 1]
       ELSE IF e.dir THEN w
       ELSE IF fails("open") \/ fails("add")
            THEN [w EXCEPT !.stats = counted, !.err = TRUE]
       ELSE [w EXCEPT !.stats = counted, !.tar = Append(@, e.path),
                      !.err = fails("close")]

\* The callback of filepath.Walk for entry e, w the walk so far, flt the
\* failure Build meets.  A failure at e returns the error, which ends the
\* walk; FilesAdded and SizeUncompressed are counted before the file is
\* opened.
Visit(w, e, pats, flt) ==
    LET fails(kind) == flt = [kind |-> kind, at |-> e.path]
        counted == [w.stats EXCEPT !.FilesAdded = @ + 1,
                                   !.SizeUncompressed = @ + e.size]
    IN IF fails("walk") THEN [w EXCEPT !.err = TRUE]
       ELSE IF Match(pats, e.path)
            THEN IF e.dir
                 THEN [w EXCEPT !.stats.DirsFiltered = @ + 1,
                                !.pruned = @ \cup {e.path}]
                 ELSE [w EXCEPT !.stats.FilesFiltered = @ + 1]
       ELSE IF e.dir THEN w
       ELSE IF fails("open") \/ fails("add")
            THEN [w EXCEPT !.stats = counted, !.err = TRUE]
       ELSE [w EXCEPT !.stats = counted, !.tar = Append(@, e.path),
                      !.err = fails("close")]

\* filepath.Walk over the first n entries of the universe: an entry is
\* visited when the tree holds it, no error ended the walk and it is not
\* below a directory that returned SkipDir.
RECURSIVE Walk(_, _, _, _)
Walk(n, t, pats, flt) ==
    IF n = 0 THEN WalkStart
    ELSE LET w == Walk(n - 1, t, pats, flt)
             e == Universe[n]
         IN IF \/ e.path \notin t
               \/ w.err
               \/ \E d \in w.pruned : Len(e.path) > 1 /\ <<e.path[1]>> = d
            THEN w
            ELSE Visit(w, e, pats, flt)

\* Variant: the error filepath.Walk returns is returned by Build.
BuildErrorWithWalk(flt, walkErr) ==
    IF flt.kind \in {"read", "parse", "tarclose", "compress"} THEN flt.kind
    ELSE IF walkErr THEN "walk"
    ELSE ""

\* The error Build returns: reading .upignore, parsing the patterns,
\* closing the tar and compressing are checked; what filepath.Walk returns
\* is dropped.
BuildError(flt, walkErr) ==
    IF flt.kind \in {"read", "parse", "tarclose", "compress"} THEN flt.kind ELSE ""

\* Variant: a missing .upignore is an error.
BuildMissingFails(t, ign, flt) ==
    LET w == IF flt.kind \in {"read", "parse"} \/ ~ign.exists THEN WalkStart
             ELSE Walk(Len(Universe), t, Patterns(ign.lines), flt)
        e == IF ign.exists THEN BuildError(flt, w.err) ELSE "read"
    IN [err |-> e,
        stream |-> IF e = "" THEN w.tar ELSE <<>>,
        stats |-> IF e = "" THEN w.stats ELSE NoStats,
        walkErr |-> w.err]

\* targz.Build: the error, and with no error the paths of the stream and
\* the stats; walkErr is what filepath.Walk returned.
Build(t, ign, flt) ==
    LET lines == IF ign.exists THEN ign.lines ELSE <<>>
        w == IF flt.kind \in {"read", "parse"} THEN WalkStart
             ELSE Walk(Len(Universe), t, Patterns(lines), flt)
        e == BuildError(flt, w.err)
    IN [err |-> e,
        stream |-> IF e = "" THEN w.tar ELSE <<>>,
        stats |-> IF e = "" THEN w.stats ELSE NoStats,
        walkErr |-> w.err]

EmptyIgnoreFile == [exists |-> TRUE, lines |-> <<>>]

\* The .upignore files: none, an empty one, and ones with a few lines.
IgnoreFiles ==
    {NoIgnoreFile}
    \cup {[exists |-> TRUE, lines |-> l] :
             l \in {<<>>, <<Allow(".env")>>, <<Deny("src")>>,
                    <<Deny("src"), Allow("app.js")>>,
                    <<Deny("main"), Allow("up")>>}}

\* The failures Build can meet: at an entry while walking (the entry
\* itself, opening, adding or closing the file), or reading .upignore,
\* parsing the patterns, closing the tar, compressing.
Faults ==
    {[kind |-> k, at |-> q] : k \in {"walk", "open", "add", "close"}, q \in Paths}
    \cup {[kind |-> k, at |-> <<>>] : k \in {"read", "parse", "tarclose", "compress"}}

CallBuildTargz ==
    /\ called = "none"
    /\ called' = "Build"
    /\ ret' = Build(tree, upignore, fault)
    /\ FuncFrame

InitTargz ==
    /\ PipelineIdle
    /\ OverrideIdle
    /\ env = EmptyEnv
    /\ kube = EmptyKubernetes
    /\ kubeDoc = NoDoc
    /\ \/ fault = NoFault /\ tree \in Trees /\ upignore \in IgnoreFiles
       \/ /\ fault \in Faults
          /\ tree \in {Paths, Paths \ {<<".upignore">>}}
          /\ upignore \in {NoIgnoreFile, EmptyIgnoreFile}
    /\ <<".upignore">> \in tree <=> upignore.exists
    /\ called = "none"
    /\ ret = NoOut

SpecTargz == InitTargz /\ [][CallBuildTargz]_vars

\* ---------------------------------------------------------------- properties
Has(o) == \E i \in DOMAIN ops : ops[i] = o

HasOp(name) == \E i \in DOMAIN ops : ops[i].op = name

\* Position of an operation in the order of Build.Run: package, upload
\* (bucket check, bucket creation, put), pod create, watch, then the loop.
Rank(name) ==
    CASE name = "package" -> 1
      [] name = "bucketExists" -> 2
      [] name = "makeBucket" -> 3
      [] name = "putObject" -> 4
      [] name = "createPod" -> 5
      [] name = "watch" -> 6
      [] name \in {"next", "deletePod"} -> 7
      [] OTHER -> 0

\* The operation Run must have completed right before one of this rank.
Needs(name) ==
    CASE name = "bucketExists" -> {"package"}
      [] name = "makeBucket" -> {"bucketExists"}
      [] name = "putObject" -> {"bucketExists", "makeBucket"}
      [] name = "createPod" -> {"putObject"}
      [] name = "watch" -> {"createPod"}
      [] OTHER -> {}

ServiceOps == {"getService", "createService", "updateService"}

ApplyOps == {"createWorkload", "updateWorkload"}

\* C1: whenever Build.Run returned success, the builder pod it created
\* reached phase Succeeded and no longer exists in the namespace, whatever
\* the cluster calls of Run answered (a failing Delete included).
C1_SuccessMeansPodDeleted ==
    runRes = "ok" => (podPhase[pbuild] = "Succeeded" /\ ~podExists[pbuild])

\* C2: when the build watch delivered an event with phase Failed, Run has
\* returned an error and the builder pod is gone from the namespace.
C2_FailedMeansPodDeleted ==
    lastPhase = "Failed" => (runRes = "err" /\ ~podExists[pbuild])

\* C3: when watcher.Next of the build watch failed, Run has returned an
\* error, issued no Delete, and the builder pod still exists.
C3_WatchErrorKeepsPod ==
    (pbuild # 0 /\ Has(Op("next", FALSE)) /\ HasOp("watch"))
        => /\ runRes = "err"
           /\ ~HasOp("deletePod")
           /\ podExists[pbuild]

C3_Witness ==
    /\ pbuild # 0
    /\ Has(Op("watch", TRUE))
    /\ Has(Op("next", FALSE))
    /\ podExists[pbuild]
    /\ podPhase[pbuild] = "Running"
    /\ runRes = "err"

\* C4: within one Build.Run the steps happen in the order package, upload,
\* pod create, watch; each step is attempted only after the step before it
\* succeeded, and a failed step makes Run return an error with no later step.
C4_RunStepsInOrder ==
    /\ \A i, j \in DOMAIN ops :
          (i < j /\ Rank(ops[i].op) > 0 /\ Rank(ops[j].op) > 0)
              => (Rank(ops[i].op) < Rank(ops[j].op) /\ (ops[i].ok \/ ops[i].op = "deletePod"))
    /\ \A j \in DOMAIN ops :
          Needs(ops[j].op) # {}
              => (j > 1 /\ ops[j - 1].op \in Needs(ops[j].op) /\ ops[j - 1].ok)
    /\ \A i \in DOMAIN ops :
          (Rank(ops[i].op) \in 1..6 /\ ~ops[i].ok)
              => (runRes = "err" /\ buildRes = "err" /\ pc = "ready")

C4_Witness ==
    /\ Has(Op("package", TRUE))
    /\ Has(Op("makeBucket", TRUE))
    /\ Has(Op("putObject", TRUE))
    /\ Has(Op("createPod", TRUE))
    /\ Has(Op("watch", TRUE))
    /\ pc = "run_next"

C6_ServiceAfterReadiness ==
    \A j \in DOMAIN ops :
        ops[j].op \in ServiceOps
            => /\ \E i \in 1..(j - 1) : ops[i].op \in ApplyOps /\ ops[i].ok
               /\ \E i \in 1..(j - 1) : ops[i] = Op("watchWorkload", TRUE)
               /\ \E i \in 1..(j - 1) :
                     /\ ops[i].op = "event"
                     /\ ops[i].available = ops[i].replicas
               /\ \A i \in 1..(j - 1) :
                     ops[i].op \in ApplyOps \cup {"watchWorkload", "next"} => ops[i].ok

C6_Witness ==
    /\ Has(Op("updateWorkload", TRUE))
    /\ Has(Op("updateService", TRUE))
    /\ deployRes = "ok"

\* C7: when Deployment.Deploy returns success, the replica of this build
\* is available: 1 of the desired 1.
C7_SuccessMeansAvailable ==
    pc = "pdep_url" => (workload.present /\ workload.updatedAvailable = 1)

\* C8: after every successful Deploy the service has the cluster_ip it had
\* after the first successful Deploy.
C8_ClusterIPStable ==
    deployRes = "ok" => (service.present /\ service.clusterIP = firstIP)

C8_Witness ==
    /\ deployRes = "ok"
    /\ pbuild = 2
    /\ workload.buildId = 2
    /\ Has(Op("updateService", TRUE))
    /\ service.clusterIP = firstIP

\* C9: after a successful Deploy the service exists with a non-empty
\* cluster_ip; Platform.URL returns exactly that cluster_ip, and an error
\* when there is no service.
C9_ServiceAndURL ==
    /\ deployRes = "ok" => (service.present /\ service.clusterIP \in ClusterIPs)
    /\ (urlRes.called /\ ~urlRes.err) => (service.present /\ urlRes.ip = service.clusterIP)
    /\ (urlRes.called /\ ~service.present) => urlRes.err

C9_Witness ==
    /\ pdeployRes = "ok"
    /\ service.present
    /\ urlRes.called
    /\ ~urlRes.err
    /\ urlRes.ip = service.clusterIP
    /\ urlRes.ip # ""

\* C10: when Deploy returns success the workload carries the label
\* up-build-id of the build that was deployed, created or updated.
C10_BuildIdLabel ==
    pc = "pdep_url" => (workload.present /\ workload.buildId = pbuild)

C10_Witness ==
    /\ pc = "pdep_url"
    /\ pbuild = 2
    /\ Has(Op("updateWorkload", TRUE))
    /\ workload.buildId = 2

\* ---------------------------------------------------------------- C11
SecretOps == {"getSecret", "createSecret", "updateSecret"}

\* C11: Deploy is idempotent.  A Deploy that succeeds again for the build
\* already deployed leaves the same workload and service pair (build-id
\* label, image, namespaces, cluster IP) as the first one left, and the
\* service the second invocation sends is one the cluster accepts: nothing
\* the first invocation left makes the second fail.
C11_DeployIdempotent ==
    /\ (pc = "pdep_url" /\ deployed.build = pbuild)
           => Pair(workload, service) = deployed.pair
    /\ (pc = "dep_update_service" /\ deployed.build = pbuild)
           => ServiceUpdateAccepted(serviceObject(prevSvc.ip, prevSvc.rv), service)

C11_Witness ==
    /\ pc = "pdep_url"
    /\ deployed.build = pbuild
    /\ deployed.again
    /\ Has(Op("getWorkload", TRUE))
    /\ Has(Op("updateWorkload", TRUE))
    /\ Has(Op("updateService", TRUE))

\* ---------------------------------------------------------------- C12
\* C12: once Build.Run has returned, with success or with any error, the
\* working directory holds neither up-proxy nor Dockerfile.up.
C12_WorkingDirClean ==
    runRes # "none" => wd \cap Injected = {}

\* ---------------------------------------------------------------- C13
\* C13: a namespace Create that fails with anything but a 409, an API status
\* or a failure that is not an API error, makes Stack.Create return an error
\* without any Get, Create or Update of the registry secret.
C13_NamespaceFailureStops ==
    stackRes.namespace \in {"api", "net"}
        => /\ stackRes.result = "err"
           /\ \A i \in 1..Len(ops) : ops[i].op \notin SecretOps

\* ---------------------------------------------------------------- C14
\* C14: whenever the builder pod has been created, the docker-registry secret
\* its volume mounts exists, with an empty registry password as well.
C14_SecretBeforePod ==
    \A b \in BuildIds :
        (podExists[b] /\ pod(b).secretVolume = DockerRegistrySecret) => secret.present

\* ---------------------------------------------------------------- C15
\* C15: with an empty registry password Stack.Create makes no Get, Create or
\* Update of the secret and returns success once the namespace step has
\* succeeded; with a non-empty password it always goes on to ensure the
\* secret, and returns success only after a Create or Update that succeeded.
C15_SecretOnlyWithPassword ==
    /\ password = ""
           => /\ \A i \in 1..Len(ops) : ops[i].op \notin SecretOps
              /\ pc \notin {"stack_secret_get", "stack_secret_create", "stack_secret_update"}
              /\ stackRes.namespace \in {"ok", "409"} => stackRes.result = "ok"
    /\ (password # "" /\ stackRes.namespace \in {"ok", "409"})
           => HasOp("getSecret") \/ pc = "stack_secret_get"
    /\ (password # "" /\ stackRes.result = "ok")
           => /\ HasOp("getSecret")
              /\ Has(Op("createSecret", TRUE)) \/ Has(Op("updateSecret", TRUE))

C15_Witness ==
    /\ password = ""
    /\ pc = "build_new"
    /\ stackRes = [namespace |-> "ok", result |-> "ok"]
    /\ ops = <<Op("createNamespace", TRUE)>>

\* ---------------------------------------------------------------- C16
\* C16: Stack.Create is idempotent.  Every later run that returns success
\* leaves the namespace and the secret as the first successful run left them,
\* and the namespace exists.
C16_StackCreateIdempotent ==
    (stackRes.result = "ok" /\ stackFirst.set)
        => /\ nsExists
           /\ nsExists = stackFirst.ns
           /\ secret = stackFirst.secret

\* ---------------------------------------------------------------- C17
\* C17: once ctx is cancelled after the builder pod was created and before a
\* terminal phase was seen, the next step Run takes returns an error, issues
\* no Delete and leaves the pod in the cluster.
C17_CancelLeavesPod ==
    [][(ctxDone /\ pc \in {"run_watch", "run_next"} /\ pc' # pc)
          => /\ pc' = "ready"
             /\ runRes' = "err"
             /\ \A i \in 1..Len(ops') : ops'[i].op # "deletePod"
             /\ podExists'[pbuild]
             /\ podPhase'[pbuild] = podPhase[pbuild]]_vars

C17_Witness ==
    /\ ctxDone
    /\ pc = "ready"
    /\ runRes = "err"
    /\ Has(Op("putObject", TRUE))
    /\ Has(Op("createPod", TRUE))
    /\ Has(Op("watch", TRUE))
    /\ Has(Op("next", FALSE))
    /\ ~HasOp("deletePod")
    /\ podExists[pbuild]
    /\ podPhase[pbuild] = "Running"

\* ---------------------------------------------------------------- C18
\* C18: the image is registry url, "/", registry image, ":", build id, and
\* the image of the workload's container is the --destination the builder
\* pod of the same build was given.
C18_ImageIsDestination ==
    /\ \A b \in BuildIds :
           podSpec[b] # NoPod
               => podSpec[b].dest = <<RegistryURL, "/", RegistryImage, ":", b>>
    /\ workload.present
           => /\ workload.image = <<RegistryURL, "/", RegistryImage, ":", workload.buildId>>
              /\ workload.image = podSpec[workload.buildId].dest

C18_Witness ==
    /\ workload.present
    /\ workload.buildId = 2
    /\ podSpec[2].dest = <<RegistryURL, "/", RegistryImage, ":", 2>>
    /\ podSpec[1] # NoPod

\* ---------------------------------------------------------------- C19
\* C19: the namespace is "up-", the project name, "-", the stage; the secret,
\* the builder pods, the workload and the service are all in it, and every
\* uploaded object has the key namespace, "/build-", build id, ".tar.gz".
C19_OneNamespace ==
    /\ stackName = <<>>
           => /\ ~secret.present /\ ~workload.present /\ ~service.present
              /\ objects = {}
              /\ \A b \in BuildIds : ~podExists[b]
    /\ stackName # <<>>
           => /\ stackName = <<"up-">> \o project \o <<"-">> \o stage
              /\ secret.present => secret.ns = stackName
              /\ \A b \in BuildIds : podExists[b] => podSpec[b].ns = stackName
              /\ workload.present => workload.ns = stackName
              /\ service.present => service.ns = stackName
              /\ \A k \in objects :
                     \E b \in BuildIds : k = stackName \o <<"/", "build-", b, ".tar.gz">>

C19_Witness ==
    /\ project = <<"a", "-", "b">>
    /\ stage = <<"c">>
    /\ secret.present
    /\ podExists[1]
    /\ workload.present
    /\ service.present
    /\ objects # {}

\* ---------------------------------------------------------------- C20
\* C20: Override assigns every non-empty (or true) field of the override to
\* the field of the same name of the target, storage.bucket included.
C20_OverrideAssignsNamesakes ==
    overridden
        => /\ \A f \in StringFields : override[f] # "" => target[f] = override[f]
           /\ override.Secure => target.Secure

\* ---------------------------------------------------------------- C21
\* C21: Default gives the environment precedence over the file.  Each of
\* KUBE_CONFIG and DOCKER_REGISTRY_URL, _IMAGE, _USERNAME, _EMAIL, _PASSWORD
\* replaces its field when it is non-empty and leaves it as it was when it
\* is empty or unset; kube_config is ~/.kube/config exactly when it is still
\* empty after the environment was applied.
C21_EnvOverFile ==
    called = "Default"
        => /\ ret.err = ""
           /\ \A v \in DOMAIN EnvField \ {"KUBE_CONFIG"} :
                  ret.d[EnvField[v]] = IF env[v] # "" THEN env[v] ELSE kube[EnvField[v]]
           /\ LET applied == IF env.KUBE_CONFIG # "" THEN env.KUBE_CONFIG
                             ELSE kube.KubeConfig
              IN /\ applied # "" => ret.d.KubeConfig = applied
                 /\ applied = "" <=> ret.d.KubeConfig = "~/.kube/config"

C21_Witness ==
    /\ called = "Default"
    /\ env.KUBE_CONFIG = ""
    /\ kube.KubeConfig = ""
    /\ ret.d.KubeConfig = "~/.kube/config"
    /\ env.DOCKER_REGISTRY_PASSWORD = "e"
    /\ kube.Password = "f"
    /\ ret.d.Password = "e"
    /\ env.DOCKER_REGISTRY_URL = ""
    /\ ret.d.URL = "f"

\* ---------------------------------------------------------------- C22
\* C22: Validate returns success only if kube_config, kube_context,
\* storage.endpoint, storage.access_key, storage.secret_key and storage.bucket
\* are all non-empty and kube_context names a context of the loaded
\* credential document; otherwise its error is about the first of these
\* fields, in that order, whose check fails; and the configuration is left
\* as it was.
FieldFails(f) ==
    \/ kube[f] = ""
    \/ f = "KubeConfig" /\ ~kubeDoc.loads
    \/ f = "KubeContext" /\ kube.KubeContext \notin kubeDoc.contexts

ErrorField ==
    [KubeConfig |-> "kube_config", KubeContext |-> "kube_context",
     Endpoint |-> "storage.endpoint", AccessKey |-> "storage.access_key",
     SecretKey |-> "storage.secret_key", Bucket |-> "storage.bucket"]

C22_ValidateRequired ==
    called = "Validate"
        => /\ ret.d = kube
           /\ ret.err = "" <=> \A i \in DOMAIN RequiredFields : ~FieldFails(RequiredFields[i])
           /\ \A i \in DOMAIN RequiredFields :
                  (/\ FieldFails(RequiredFields[i])
                   /\ \A j \in 1..(i - 1) : ~FieldFails(RequiredFields[j]))
                      => ret.err = ErrorField[RequiredFields[i]]

C22_Witness ==
    /\ called = "Validate"
    /\ kube.KubeConfig = "f"
    /\ kubeDoc = [loads |-> TRUE, contexts |-> {"prod"}]
    /\ kube.KubeContext = "dev"
    /\ kube.Endpoint = ""
    /\ ret.err = "kube_context"

\* ---------------------------------------------------------------- C23
\* A path with a component that begins with a dot.
DotPath(q) == \E i \in DOMAIN q : q[i] \in DotNames

\* C23: every dot-prefixed path in the tarball is allowed back by a pattern
\* that comes after `.*` in the rule order: one of the implicit allows
\* node_modules/** and .pypath/**, a line of the ignore file, or a trailing
\* allow; all other dot-prefixed paths are left out.
C23_DotPathsOmitted ==
    called = "Build"
        => LET pats == Patterns(IF upignore.exists THEN upignore.lines ELSE <<>>)
           IN \A k \in DOMAIN ret.stream :
                  DotPath(ret.stream[k])
                      => /\ pats[1] = DenyDot
                         /\ \E i \in 2..Len(pats) :
                                pats[i].neg /\ Matches(pats[i], ret.stream[k])

C23_Witness ==
    /\ called = "Build"
    /\ ret.err = ""
    /\ upignore.exists
    /\ upignore.lines = <<Allow(".env")>>
    /\ <<"src", ".cache">> \in tree
    /\ <<".git", "config">> \in tree
    /\ \E k \in DOMAIN ret.stream : ret.stream[k] = <<".env">>
    /\ \E k \in DOMAIN ret.stream : ret.stream[k] = <<"src", "app.js">>
    /\ \A k \in DOMAIN ret.stream :
           ret.stream[k] \notin {<<"src", ".cache">>, <<".git", "config">>}

\* ---------------------------------------------------------------- C24
\* C24: a filesystem failure during packaging, an error reported for a
\* walked entry or a failure to open, add or close an included file, makes
\* targz.Build return an error, and Build.Run then fails before the upload.
C24_PackagingFailureIsError ==
    (called = "Build" /\ ret.walkErr)
        => /\ ret.err # ""
           /\ AfterTarball(ret.err = "") = "fail"

\* ---------------------------------------------------------------- C25
Terminal == {"Succeeded", "Failed"}

\* C25: while the pod is in a phase that is neither Succeeded nor Failed,
\* a step in which the watch does not fail leaves Run in its loop, with no
\* result, no Delete and the pod in place; and once the pod is Succeeded or
\* Failed while Run is in the loop, with a watch that delivers, Run returns.
C25_WatchLoop ==
    /\ [][(/\ pc = "run_next"
           /\ podPhase[pbuild] \notin Terminal
           /\ \A i \in (Len(ops) + 1)..Len(ops') : ops'[i] # Op("next", FALSE))
              => /\ pc' = "run_next"
                 /\ runRes' = "none"
                 /\ podExists'[pbuild]
                 /\ ops' = ops]_vars
    /\ (pc = "run_next" /\ podPhase[pbuild] \in Terminal) ~> (pc = "ready")

C25_Witness ==
    /\ pc = "run_next"
    /\ lastPhase = "Running"
    /\ podPhase[pbuild] = "Succeeded"
    /\ podExists[pbuild]
    /\ runRes = "none"
    /\ ~HasOp("deletePod")

\* ---------------------------------------------------------------- C26
\* C26: Deploy creates the workload exactly when none exists and updates it
\* exactly when one exists, and the same for the service; a Create is never
\* sent for an object that is present.
C26_ApplyMatchesPresence ==
    /\ pc = "dep_create" => ~workload.present
    /\ pc = "dep_update" => workload.present
    /\ pc = "dep_create_service" => ~service.present
    /\ pc = "dep_update_service"
           => (service.present /\ prevSvc.rv = service.resourceVersion)

\* ---------------------------------------------------------------- C27
\* C27: with a non-empty registry password Stack.Create creates the secret
\* exactly when it is absent and updates it exactly when it is present, the
\* secret it writes carries the auth value of the password, and a failed
\* Create or Update makes Stack.Create return an error.
C27_SecretApplyMatchesPresence ==
    /\ pc = "stack_secret_create" => (password # "" /\ ~secret.present)
    /\ pc = "stack_secret_update" => (password # "" /\ secret.present)
    /\ secret.present => secret.auth = registryAuth(password)
    /\ (Has(Op("createSecret", FALSE)) \/ Has(Op("updateSecret", FALSE)))
           => (stackRes.result = "err" /\ buildRes = "err" /\ pc = "ready")

\* ---------------------------------------------------------------- C28
UploadOps == {"bucketExists", "makeBucket", "putObject"}

\* C28: in the upload step MakeBucket is called only after an existence
\* check that found the bucket missing, PutObject only once the bucket
\* exists, and a failure of the check, of MakeBucket or of PutObject makes
\* Run return an error without creating the builder pod.
C28_UploadStep ==
    [][/\ (pc' = "run_make_bucket" /\ pc' # pc)
              => (pc = "run_bucket_exists" /\ ~bucket)
       /\ (pc' = "run_put" /\ pc' # pc)
              => (pc \in {"run_bucket_exists", "run_make_bucket"} /\ bucket')
       /\ \A i \in (Len(ops) + 1)..Len(ops') :
              (ops'[i].op \in UploadOps /\ ~ops'[i].ok)
                  => /\ pc' = "ready"
                     /\ runRes' = "err"
                     /\ \A j \in 1..Len(ops') : ops'[j].op # "createPod"
                     /\ podExists' = podExists]_vars

C28_Witness ==
    /\ pc = "ready"
    /\ runRes = "err"
    /\ ~bucket
    /\ ops = <<Op("createNamespace", TRUE), Op("getSecret", FALSE),
               Op("createSecret", TRUE), Op("package", TRUE),
               Op("bucketExists", TRUE), Op("makeBucket", FALSE)>>
    /\ \A b \in BuildIds : ~podExists[b]

\* ---------------------------------------------------------------- C29
\* C29: the ctx of Run governs every suspension point.  Once it is cancelled
\* Run starts no bucket check, bucket creation or object put and changes
\* nothing in the cluster, and the next step it takes returns an error.
C29_ContextGovernsRun ==
    [][(ctxDone /\ pc \in RunPcs /\ pc # "run_tarball")
          => /\ \A i \in (Len(ops) + 1)..Len(ops') : ops'[i].op \notin UploadOps
             /\ podExists' = podExists
             /\ pc' # pc => (pc' = "ready" /\ runRes' = "err")]_vars

\* ---------------------------------------------------------------- C30
GetOps == {"getSecret", "getWorkload", "getService"}

\* C30: nothing is retried.  In one invocation every operation appears at
\* most once, and an operation that failed, other than a Get that found
\* nothing and the 409 of the namespace, is the last one and the invocation
\* has returned an error.
C30_NothingRetried ==
    /\ \A i, j \in DOMAIN ops : i # j => ops[i].op # ops[j].op
    /\ stackRes.namespace \in {"api", "net"} => stackRes.result = "err"
    /\ \A i \in DOMAIN ops :
           (~ops[i].ok /\ ops[i].op \notin GetOps \cup {"createNamespace"})
               => /\ i = Len(ops)
                  /\ pc = "ready"
                  /\ IF HasOp("createNamespace") THEN buildRes = "err"
                     ELSE pdeployRes = "err"

\* ---------------------------------------------------------------- C31
\* The names the trailing rules of Build allow and deny.
TrailingAllowed == {"main", "server", "_proxy.js", "byline.js", "up.json",
                    "pom.xml", "build.gradle", "project.clj"}

TrailingDenied == {"gin-bin", "up"}

InStream(q) == \E k \in DOMAIN ret.stream : ret.stream[k] = q

\* C31: the trailing rules come after the lines of the ignore file and the
\* last matching pattern decides, so a packaging that met no failure holds
\* main, server, _proxy.js, byline.js, up.json, pom.xml, build.gradle and
\* project.clj whatever the ignore file says of them, and never up or
\* gin-bin.
C31_TrailingRulesDecide ==
    (called = "Build" /\ fault = NoFault)
        => LET pats == Patterns(IF upignore.exists THEN upignore.lines ELSE <<>>)
           IN /\ \A n \in TrailingAllowed :
                     /\ ~Match(pats, <<n>>)
                     /\ <<n>> \in tree => InStream(<<n>>)
              /\ \A n \in TrailingDenied :
                     /\ Match(pats, <<n>>)
                     /\ ~InStream(<<n>>)

C31_Witness ==
    /\ called = "Build"
    /\ fault = NoFault
    /\ upignore.exists
    /\ upignore.lines = <<Deny("main"), Allow("up")>>
    /\ {<<"main">>, <<"up">>} \subseteq tree
    /\ InStream(<<"main">>)
    /\ ~InStream(<<"up">>)
    /\ ret.stats.FilesFiltered >= 1

\* ---------------------------------------------------------------- C32
\* The directories of the universe.
Dirs == {Universe[i].path : i \in {j \in DOMAIN Universe : Universe[j].dir}}

\* The patterns of the packaging at hand.
UsedPatterns == Patterns(IF upignore.exists THEN upignore.lines ELSE <<>>)

\* A directory at the root of the tree that the filter matches.
MatchedRoot(d) ==
    d \in tree /\ d \in Dirs /\ Len(d) = 1 /\ Match(UsedPatterns, d)

\* An entry below such a directory.
Below(q) == Len(q) > 1 /\ MatchedRoot(<<q[1]>>)

\* C32: a directory the filter matches is pruned with all that is below it:
\* nothing below it is in the tarball or counted as added or filtered, even
\* when the filter would let the entry through, and the directory counts
\* once in dirs_filtered.
C32_DirectoryPruned ==
    (called = "Build" /\ fault = NoFault)
        => /\ \A q \in tree : Below(q) => ~InStream(q)
           /\ ret.stats.DirsFiltered =
                  Cardinality({d \in tree : MatchedRoot(d)})
           /\ ret.stats.FilesAdded =
                  Cardinality({q \in tree \ Dirs :
                                   ~Below(q) /\ ~Match(UsedPatterns, q)})
           /\ ret.stats.FilesFiltered =
                  Cardinality({q \in tree \ Dirs :
                                   ~Below(q) /\ Match(UsedPatterns, q)})

C32_Witness ==
    /\ called = "Build"
    /\ fault = NoFault
    /\ upignore.exists
    /\ upignore.lines = <<Deny("src"), Allow("app.js")>>
    /\ tree = {<<"src">>, <<"src", "app.js">>, <<"src", ".cache">>,
               <<".git">>, <<".git", ".hooks">>, <<"main">>, <<".upignore">>}
    /\ ~Match(UsedPatterns, <<"src", "app.js">>)
    /\ ~InStream(<<"src", "app.js">>)
    /\ ret.stats.DirsFiltered = 2
    /\ ret.stats.FilesFiltered = 1
    /\ ret.stats.FilesAdded = 1

\* ---------------------------------------------------------------- C33
\* The size of an entry of the universe.
SizeOf(q) == Universe[CHOOSE i \in DOMAIN Universe : Universe[i].path = q].size

\* The sum of the sizes of the entries of a stream.
RECURSIVE SumSizes(_)
SumSizes(str) ==
    IF str = <<>> THEN 0 ELSE SizeOf(Head(str)) + SumSizes(Tail(str))

\* C33: the stats Build returns describe the stream it returns: files_added
\* is the number of files in the tarball and size_uncompressed the sum of
\* their sizes; a directory with nothing to include gives a stream with no
\* file and files_added = 0.
C33_StatsMatchStream ==
    (called = "Build" /\ ret.err = "")
        => /\ ret.stats.FilesAdded = Len(ret.stream)
           /\ ret.stats.SizeUncompressed = SumSizes(ret.stream)
           /\ \A k \in DOMAIN ret.stream : ret.stream[k] \in tree \ Dirs

\* ---------------------------------------------------------------- C34
\* C34: with no .upignore Build packages as with an empty one: no error,
\* the same stream, the same files added and directories filtered, and the
\* same files filtered but for the ignore file itself, which `.*` filters
\* when it is there; a .upignore that cannot be opened for another reason
\* than not being there makes Build return an error.
C34_MissingIsEmpty ==
    called = "Build"
        => /\ (fault = NoFault /\ upignore = NoIgnoreFile) => ret.err = ""
           /\ (fault = NoFault /\ upignore = EmptyIgnoreFile)
                  => LET m == Build(tree \ {<<".upignore">>}, NoIgnoreFile, NoFault)
                     IN /\ ret.err = ""
                        /\ m.err = ""
                        /\ ret.stream = m.stream
                        /\ ret.stats.FilesAdded = m.stats.FilesAdded
                        /\ ret.stats.SizeUncompressed = m.stats.SizeUncompressed
                        /\ ret.stats.DirsFiltered = m.stats.DirsFiltered
                        /\ ret.stats.FilesFiltered = m.stats.FilesFiltered + 1
           /\ fault.kind = "read" => ret.err # "" /\ ret.stream = <<>>

C34_Witness ==
    /\ called = "Build"
    /\ fault = NoFault
    /\ upignore = EmptyIgnoreFile
    /\ {<<"main">>, <<".env">>, <<"src">>, <<"src", "app.js">>} \subseteq tree
    /\ ret.err = ""
    /\ InStream(<<"main">>)
    /\ InStream(<<"src", "app.js">>)
    /\ ~InStream(<<".upignore">>)

\* ---------------------------------------------------------------- C35
\* C35: platform.deploy.complete is emitted only by a Platform.Deploy that
\* returns success, and after platform.deploy.url: a Deploy whose fetch of
\* the service URL fails emits no platform.deploy.complete.
C35_CompleteOnlyOnSuccess ==
    \A i \in DOMAIN events :
        events[i] = "platform.deploy.complete"
            => /\ pdeployRes = "ok"
               /\ \E j \in 1..(i - 1) : events[j] = "platform.deploy.url"

\* ---------------------------------------------------------------- C36
\* C36: no other pair of project name and stage has the namespace of this
\* platform: what it writes, the secret, the builder pods, the workload,
\* the service and the prefix of the upload keys, is in a namespace no
\* other pair would use.
C36_NamespacesDisjoint ==
    \A q \in Projects :
        q # <<project, stage>>
            => LET other == projectNamespace(q[1], q[2])
               IN /\ stackName # other
                  /\ secret.present => secret.ns # other
                  /\ workload.present => workload.ns # other
                  /\ service.present => service.ns # other
                  /\ \A b \in BuildIds : podExists[b] => podSpec[b].ns # other
                  /\ \A k \in objects : SubSeq(k, 1, Len(other)) # other

\* ---------------------------------------------------------------- C37
\* C37: Override changes no field of the target whose namesake in the
\* override is empty, or false for Storage.Secure.
C37_OverrideFrame ==
    [][/\ \A f \in StringFields : override[f] = "" => target'[f] = target[f]
       /\ ~override.Secure => target'.Secure = target.Secure]_vars

====
